---- MODULE Spec2Model ----
(***************************************************************************)
(* Authentication and authorization core of the Titanic passenger API:     *)
(* credential store, password hasher, JWT codec, AuthService, the FastAPI  *)
(* dependency chain (get_current_user -> get_current_active_user ->        *)
(* require_admin / require_user_or_admin) and the routes it guards.        *)
(* Time is counted in minutes.                                             *)
(***************************************************************************)
EXTENDS Integers, Sequences, FiniteSets, TLC

VARIABLES
    users,            \* rows of table "users" (models/user.py)
    nextUserId,       \* autoincrement counter of users.id
    passengers,       \* rows of table "passengers" (models/passenger.py)
    nextPassengerId,  \* autoincrement counter of passengers.id
    now,              \* the UTC clock read by datetime.utcnow()
    tz,               \* local time minus UTC on the host (datetime.fromtimestamp)
    bearerStatus,     \* status HTTPBearer() answers when credentials are missing
    held,             \* the token the client got from its last successful login
    resp,             \* the last request and the response it got
    calls             \* register requests in flight, one per request worker

vars == <<users, nextUserId, passengers, nextPassengerId, now, tz,
          bearerStatus, held, resp, calls>>

----------------------------------------------------------------------------
(* Bounds of the model *)

MaxUsers == 1
MaxPassengers == 1
MaxTime == 40
TickStep == 20
MaxCalls == 2
MaxSeeded == 2

(* Inputs *)

Emails == {"a@x.com", "b@x.com"}
Passwords == {"pw1234", "other1"}
RegisterPasswords == {"pw1234"}
RequestRoles == {"user", "admin", "guest"}
TzOffsets == {-60, 0, 60}
BearerStatuses == {401, 403}
CreateAges == {30}
UpdateAges == {35}
Calls == 1..MaxCalls
TokenUserIds == {7}
ClockDrifts == {0, 1}
ClockSteps == {1, 10}
PayloadUserIds == {0, 7}
ExpForms == {"int", "str", "overflow", "missing"}
ExpClaims == {10, 50}

(* Program constants *)

ACCESS_TOKEN_EXPIRE_MINUTES == 30
SECRET_KEY == "votre_cle_secrete_super_securisee_123456789"
ALGORITHM == "HS256"

----------------------------------------------------------------------------
(* Password hasher *)

hash_password(password) == [scheme |-> "bcrypt", digest_of |-> password]

verify_password(plain_password, hashed_password) ==
    /\ hashed_password.scheme = "bcrypt"
    /\ hashed_password.digest_of = plain_password

----------------------------------------------------------------------------
(* Credential store rows *)

NoUser == [id |-> 0, email |-> "", password_hash |-> hash_password(""),
           role |-> "", is_active |-> FALSE]

\* User(email=..., password_hash=..., role=...): is_active takes its column default
User(id, email, password_hash, role) ==
    [id |-> id, email |-> email, password_hash |-> password_hash,
     role |-> role, is_active |-> TRUE]

\* db.query(User).filter(User.email == email).first()
query_user_by_email(db, email) ==
    IF \E u \in db : u.email = email
    THEN CHOOSE u \in db : u.email = email
    ELSE NoUser

\* db.query(User).filter(User.id == user_id).first()
query_user_by_id(db, user_id) ==
    IF \E u \in db : u.id = user_id
    THEN CHOOSE u \in db : u.id = user_id
    ELSE NoUser

\* a UserResponse that also declares the password_hash column
UserResponse_with_password_hash(user) ==
    [id |-> user.id, email |-> user.email, role |-> user.role,
     is_active |-> user.is_active, password_hash |-> user.password_hash]

\* UserResponse.from_orm(user): id, email, role, is_active only
UserResponse(user) ==
    [id |-> user.id, email |-> user.email, role |-> user.role,
     is_active |-> user.is_active]

NoUserResponse == UserResponse(NoUser)

----------------------------------------------------------------------------
(* Token codec *)

\* exp_form is the JSON form of the exp claim: "int" (a NumericDate),
\* "str" (a string of digits), "overflow" (a number beyond the range of the
\* platform's time_t) or "missing" (no exp claim); a user_id of 0 stands
\* for a payload without the user_id claim
NoToken == [kind |-> "none", user_id |-> 0, email |-> "", role |-> "",
            exp |-> 0, exp_form |-> "missing", iat |-> 0, key |-> "", alg |-> ""]

\* a string that is no three-part JWT, e.g. "invalid_token"
Malformed == [NoToken EXCEPT !.kind = "malformed"]

\* first clock read t1 gives exp, second clock read t2 gives iat
create_access_token(user_id, email, role, t1, t2) ==
    [kind |-> "jwt", user_id |-> user_id, email |-> email, role |-> role,
     exp |-> t1 + ACCESS_TOKEN_EXPIRE_MINUTES, exp_form |-> "int", iat |-> t2,
     key |-> SECRET_KEY, alg |-> ALGORITHM]

\* raised names the exception that leaves the function, "" when it returns
NoPayload == [valid |-> FALSE, user_id |-> 0, email |-> "", role |-> "", exp |-> 0,
              exp_form |-> "missing", raised |-> ""]

Raised(exception) == [NoPayload EXCEPT !.raised = exception]

\* jose.jwt.decode called with options={"verify_exp": False}
jwt_decode_without_exp_verification(token, t) ==
    IF token.kind # "jwt" THEN NoPayload
    ELSE IF token.key # SECRET_KEY \/ token.alg # ALGORITHM THEN NoPayload
    ELSE [valid |-> TRUE, user_id |-> token.user_id, email |-> token.email,
          role |-> token.role, exp |-> token.exp, exp_form |-> token.exp_form,
          raised |-> ""]

\* jose.jwt.decode(token, SECRET_KEY, algorithms=[ALGORITHM]): a JWTError
\* (here: valid = FALSE) for a malformed token, a signature that does not
\* verify under SECRET_KEY, or an exp claim earlier than the UTC clock
\* (jose compares int(exp), so a string of digits is compared as its number)
jwt_decode(token, t) ==
    IF token.kind # "jwt" THEN NoPayload
    ELSE IF token.key # SECRET_KEY \/ token.alg # ALGORITHM THEN NoPayload
    ELSE IF token.exp_form \in {"int", "str"} /\ token.exp < t THEN NoPayload
    ELSE [valid |-> TRUE, user_id |-> token.user_id, email |-> token.email,
          role |-> token.role, exp |-> token.exp, exp_form |-> token.exp_form,
          raised |-> ""]

\* datetime.fromtimestamp(exp): the naive LOCAL wall-clock time of exp
fromtimestamp(exp, offset) == exp + offset

\* JWTHandler.decode_token; t is datetime.utcnow(). Only JWTError is caught:
\* datetime.fromtimestamp raises TypeError for a string and OverflowError /
\* OSError / ValueError for a number out of range
decode_token(token, t, offset) ==
    LET payload == jwt_decode(token, t) IN
    IF ~payload.valid THEN NoPayload
    ELSE IF payload.exp_form = "str" THEN Raised("TypeError")
    ELSE IF payload.exp_form = "overflow" THEN Raised("OverflowError")
    ELSE IF payload.exp_form = "int" /\ payload.exp # 0
            /\ t > fromtimestamp(payload.exp, offset) THEN NoPayload
    ELSE [payload EXCEPT !.exp = 0, !.exp_form = "missing"]

----------------------------------------------------------------------------
(* AuthService *)

\* raise ValidationError(message)
Failure(message) ==
    [ok |-> FALSE, raised |-> "ValidationError", error |-> message,
     user |-> NoUser, token |-> NoToken]

\* an exception of a callee that the service does not catch
Propagated(exception) == [Failure("") EXCEPT !.raised = exception]

Success(user, token) ==
    [ok |-> TRUE, raised |-> "", error |-> "", user |-> user, token |-> token]

\* AuthService.create_user without the lookup of the email
AuthService_create_user_without_email_lookup(db, id, email, password, role) ==
    IF role \notin {"user", "admin"}
    THEN Failure("Le role doit etre 'user' ou 'admin'")
    ELSE Success(User(id, email, hash_password(password), role), NoToken)

\* AuthService.create_user without the validation of the role
AuthService_create_user_accepts_any_role(db, id, email, password, role) ==
    IF query_user_by_email(db, email) # NoUser
    THEN Failure("Un utilisateur avec cet email existe deja")
    ELSE Success(User(id, email, hash_password(password), role), NoToken)

\* AuthService.create_user up to the commit; id is the key the store assigns
AuthService_create_user(db, id, email, password, role) ==
    IF query_user_by_email(db, email) # NoUser
    THEN Failure("Un utilisateur avec cet email existe deja")
    ELSE IF role \notin {"user", "admin"}
    THEN Failure("Le role doit etre 'user' ou 'admin'")
    ELSE Success(User(id, email, hash_password(password), role), NoToken)

\* AuthService.login with a message of its own for an email that is not stored
AuthService_login_names_unknown_email(db, email, password, t1, t2) ==
    LET user == query_user_by_email(db, email) IN
    IF user = NoUser
    THEN Failure("Utilisateur non trouve")
    ELSE IF ~verify_password(password, user.password_hash)
    THEN Failure("Email ou mot de passe incorrect")
    ELSE IF ~user.is_active
    THEN Failure("Compte desactive")
    ELSE Success(user, create_access_token(user.id, user.email, user.role, t1, t2))

\* AuthService.login that looks at is_active before it verifies the password
AuthService_login_checks_active_first(db, email, password, t1, t2) ==
    LET user == query_user_by_email(db, email) IN
    IF user = NoUser
    THEN Failure("Email ou mot de passe incorrect")
    ELSE IF ~user.is_active
    THEN Failure("Compte desactive")
    ELSE IF ~verify_password(password, user.password_hash)
    THEN Failure("Email ou mot de passe incorrect")
    ELSE Success(user, create_access_token(user.id, user.email, user.role, t1, t2))

\* AuthService.login; t1 and t2 are the two clock reads of create_access_token
AuthService_login(db, email, password, t1, t2) ==
    LET user == query_user_by_email(db, email) IN
    IF user = NoUser
    THEN Failure("Email ou mot de passe incorrect")
    ELSE IF ~verify_password(password, user.password_hash)
    THEN Failure("Email ou mot de passe incorrect")
    ELSE IF ~user.is_active
    THEN Failure("Compte desactive")
    ELSE Success(user, create_access_token(user.id, user.email, user.role, t1, t2))

\* AuthService.get_current_user with a message of its own for an expired token
AuthService_get_current_user_names_expiry(db, token, t, offset) ==
    LET payload == decode_token(token, t, offset) IN
    IF payload.raised # "" THEN Propagated(payload.raised)
    ELSE IF token.kind = "jwt" /\ token.exp < t
    THEN Failure("Token expire")
    ELSE IF ~payload.valid
    THEN Failure("Token invalide ou expire")
    ELSE LET user == query_user_by_id(db, payload.user_id) IN
         IF user = NoUser
         THEN Failure("Utilisateur non trouve")
         ELSE IF ~user.is_active
         THEN Failure("Compte desactive")
         ELSE Success(user, NoToken)

\* AuthService.get_current_user (resolve)
AuthService_get_current_user(db, token, t, offset) ==
    LET payload == decode_token(token, t, offset) IN
    IF payload.raised # "" THEN Propagated(payload.raised)
    ELSE IF ~payload.valid
    THEN Failure("Token invalide ou expire")
    ELSE LET user == query_user_by_id(db, payload.user_id) IN
         IF user = NoUser
         THEN Failure("Utilisateur non trouve")
         ELSE IF ~user.is_active
         THEN Failure("Compte desactive")
         ELSE Success(user, NoToken)

\* AuthService.get_all_users: the data of the response
AuthService_get_all_users(db) == {UserResponse(user) : user \in db}

----------------------------------------------------------------------------
(* Access control: the dependency chain of auth/dependencies.py *)

NoHeader == [scheme |-> "none", credentials |-> NoToken]
Bearer(token) == [scheme |-> "Bearer", credentials |-> token]
Basic == [scheme |-> "Basic", credentials |-> Malformed]

\* outcome of a gate: the gates run so far, and either the user handed on
\* (status 200) or the HTTPException raised
Pass(gates, user) ==
    [ok |-> TRUE, status |-> 200, detail |-> "", user |-> user, gates |-> gates]

Reject(gates, status, detail) ==
    [ok |-> FALSE, status |-> status, detail |-> detail, user |-> NoUser,
     gates |-> gates]

\* security = HTTPBearer(): auto_error answers a missing header or a scheme
\* other than Bearer itself, with the status of the installed FastAPI
security(authorization) ==
    IF authorization.scheme = "none"
    THEN Reject(<<"security">>, bearerStatus, "Not authenticated")
    ELSE IF authorization.scheme # "Bearer"
    THEN Reject(<<"security">>, bearerStatus,
                IF bearerStatus = 403 THEN "Invalid authentication credentials"
                ELSE "Not authenticated")
    ELSE Pass(<<"security">>, NoUser)

\* dependencies.get_current_user, given the outcome of Depends(security);
\* an exception other than ValidationError is not caught and ends the
\* request with the server's 500
get_current_user(db, authorization, credentials) ==
    IF ~credentials.ok THEN credentials
    ELSE LET gates == Append(credentials.gates, "get_current_user")
             r == AuthService_get_current_user(db, authorization.credentials, now, tz)
         IN IF r.ok THEN Pass(gates, r.user)
            ELSE IF r.raised = "ValidationError" THEN Reject(gates, 401, r.error)
            ELSE Reject(gates, 500, "Internal Server Error")

\* get_current_active_user that goes on after get_current_user has rejected
get_current_active_user_keeps_going(current_user) ==
    LET gates == Append(current_user.gates, "get_current_active_user") IN
    IF ~current_user.user.is_active
    THEN Reject(gates, 400, "Utilisateur inactif")
    ELSE Pass(gates, current_user.user)

\* dependencies.get_current_active_user, given the outcome of
\* Depends(get_current_user): an exception raised there ends the request
get_current_active_user(current_user) ==
    IF ~current_user.ok THEN current_user
    ELSE LET gates == Append(current_user.gates, "get_current_active_user") IN
         IF ~current_user.user.is_active
         THEN Reject(gates, 400, "Utilisateur inactif")
         ELSE Pass(gates, current_user.user)

\* require_admin that lets every role known to the API through
require_admin_as_user_or_admin(current_user) ==
    IF ~current_user.ok THEN current_user
    ELSE LET gates == Append(current_user.gates, "require_admin") IN
         IF current_user.user.role \notin {"user", "admin"}
         THEN Reject(gates, 403, "Droits administrateur requis")
         ELSE Pass(gates, current_user.user)

\* dependencies.require_admin, given the outcome of Depends(get_current_active_user)
require_admin(current_user) ==
    IF ~current_user.ok THEN current_user
    ELSE LET gates == Append(current_user.gates, "require_admin") IN
         IF current_user.user.role # "admin"
         THEN Reject(gates, 403, "Droits administrateur requis")
         ELSE Pass(gates, current_user.user)

\* dependencies.require_user_or_admin, given the outcome of
\* Depends(get_current_active_user)
require_user_or_admin(current_user) ==
    IF ~current_user.ok THEN current_user
    ELSE LET gates == Append(current_user.gates, "require_user_or_admin") IN
         IF current_user.user.role \notin {"user", "admin"}
         THEN Reject(gates, 403, "Authentification requise")
         ELSE Pass(gates, current_user.user)

\* the dependency chains FastAPI resolves, innermost first, for a route that
\* declares Depends(get_current_active_user), Depends(require_admin) or
\* Depends(require_user_or_admin)
Depends_get_current_user(db, authorization) ==
    get_current_user(db, authorization, security(authorization))

Depends_get_current_active_user(db, authorization) ==
    get_current_active_user(Depends_get_current_user(db, authorization))

Depends_require_admin(db, authorization) ==
    require_admin(Depends_get_current_active_user(db, authorization))

Depends_require_user_or_admin(db, authorization) ==
    require_user_or_admin(Depends_get_current_active_user(db, authorization))

----------------------------------------------------------------------------
(* schemas/passenger.py: the bodies of the passenger routes *)

\* Python's None in a string field, and in the age field
None == "None"
NoAge == -1

Fields == {"sex", "age", "embarked"}

\* str.lower() and str.upper() on the strings the requests carry
lower(v) == CASE v = "Female" -> "female" [] OTHER -> v
upper(v) == CASE v = "q" -> "Q" [] v = "x" -> "X" [] OTHER -> v

\* PassengerCreate(sex=..., age=..., embarked=...)
PassengerCreate(sex, age, embarked) == [sex |-> sex, age |-> age, embarked |-> embarked]

\* PassengerUpdate(): every field None, none of them set
NoUpdate == [sex |-> None, age |-> NoAge, embarked |-> None, fields_set |-> {}]

\* the JSON body {"age": age}
AgeUpdate(age) == [NoUpdate EXCEPT !.age = age, !.fields_set = {"age"}]

\* PassengerUpdate accepts the body: Field(ge=0, le=120) and the
\* field_validators run on the fields the body names
PassengerUpdate_valid(body) ==
    /\ ("sex" \in body.fields_set /\ body.sex # None)
          => lower(body.sex) \in {"male", "female"}
    /\ ("age" \in body.fields_set /\ body.age # NoAge)
          => (0 <= body.age /\ body.age <= 120)
    /\ ("embarked" \in body.fields_set /\ body.embarked # None)
          => upper(body.embarked) \in {"C", "S", "Q"}

\* the PassengerUpdate object of an accepted body: validate_sex returns
\* v.lower(), validate_embarked returns v.upper()
PassengerUpdate(body) ==
    [body EXCEPT !.sex = IF "sex" \in body.fields_set /\ @ # None
                         THEN lower(@) ELSE @,
                 !.embarked = IF "embarked" \in body.fields_set /\ @ # None
                              THEN upper(@) ELSE @]

----------------------------------------------------------------------------
(* Requests and responses *)

Omitted == "(omitted)"

\* schemas.UserCreate: role: str = Field("user", ...)
UserCreate_role(role) == IF role = Omitted THEN "user" ELSE role

Resp(op, authorization, email, password, role, status, detail, gates, handler, user, token) ==
    [op |-> op, authorization |-> authorization, email |-> email,
     password |-> password, role |-> role, status |-> status,
     detail |-> detail, gates |-> gates, handler |-> handler,
     user |-> user, token |-> token, listed |-> {}, path |-> <<>>,
     query |-> None, passenger_id |-> 0, passenger_data |-> NoUpdate]

Idle == Resp("none", NoHeader, "", "", "", 0, "", <<>>, FALSE, NoUserResponse, NoToken)

\* a token signed with another key, claiming the admin role
Forge(token) == [token EXCEPT !.key = "attacker-key", !.role = "admin"]

\* what a client can put in the Authorization header
AuthHeaders ==
    {NoHeader, Basic, Bearer(Malformed)}
        \cup (IF held = NoToken THEN {} ELSE {Bearer(held), Bearer(Forge(held))})

\* a guarded request: the response of the gate when it rejects
Rejected(op, authorization, gate) ==
    Resp(op, authorization, "", "", "", gate.status, gate.detail, gate.gates,
         FALSE, NoUserResponse, NoToken)

\* a guarded request whose handler ran
Handled(op, authorization, gate, status, detail) ==
    Resp(op, authorization, "", "", "", status, detail, gate.gates, TRUE,
         UserResponse(gate.user), NoToken)

\* a guarded request whose path parameter or body FastAPI refuses, after
\* the dependencies passed and before the handler
Unprocessable(op, authorization, gate) ==
    Resp(op, authorization, "", "", "", 422, "Unprocessable Entity", gate.gates,
         FALSE, NoUserResponse, NoToken)

----------------------------------------------------------------------------
(* Routes of api/auth_routes.py *)

\* a register that overwrites the record of an email already stored
Register_overwriting_the_duplicate(email, password, role) ==
    \E r \in {AuthService_create_user({}, nextUserId, email, password,
                                      UserCreate_role(role))} :
    /\ r.ok => nextUserId <= MaxUsers + 1
    /\ users' = IF r.ok
                THEN {u \in users : u.email # email} \cup {r.user}
                ELSE users
    /\ nextUserId' = IF r.ok THEN nextUserId + 1 ELSE nextUserId
    /\ resp' = IF r.ok
               THEN Resp("register", NoHeader, email, password, role, 200,
                         "Utilisateur cree avec succes", <<>>, TRUE,
                         UserResponse(r.user), NoToken)
               ELSE Resp("register", NoHeader, email, password, role, 400,
                         r.error, <<>>, TRUE, NoUserResponse, NoToken)
    /\ UNCHANGED <<calls, passengers, nextPassengerId, now, tz, bearerStatus, held>>

\* POST /api/v1/auth/register
Register(email, password, role) ==
    \E r \in {AuthService_create_user(users, nextUserId, email, password,
                                      UserCreate_role(role))} :
    /\ r.ok => nextUserId <= MaxUsers
    /\ users' = IF r.ok THEN users \cup {r.user} ELSE users
    /\ nextUserId' = IF r.ok THEN nextUserId + 1 ELSE nextUserId
    /\ resp' = IF r.ok
               THEN Resp("register", NoHeader, email, password, role, 200,
                         "Utilisateur cree avec succes", <<>>, TRUE,
                         UserResponse(r.user), NoToken)
               ELSE Resp("register", NoHeader, email, password, role, 400,
                         r.error, <<>>, TRUE, NoUserResponse, NoToken)
    /\ UNCHANGED <<calls, passengers, nextPassengerId, now, tz, bearerStatus, held>>

\* auth_routes.login: the response of POST /api/v1/auth/login; every
\* ValidationError of AuthService.login becomes HTTP 401
login(db, email, password, t1, t2) ==
    LET r == AuthService_login(db, email, password, t1, t2) IN
    IF r.ok
    THEN Resp("login", NoHeader, email, password, "", 200, "Connexion reussie",
              <<>>, TRUE, UserResponse(r.user), r.token)
    ELSE Resp("login", NoHeader, email, password, "", 401, r.error,
              <<>>, TRUE, NoUserResponse, NoToken)

\* POST /api/v1/auth/login
Login(email, password) ==
    \E r \in {login(users, email, password, now, now)} :
    /\ resp' = r
    /\ held' = IF r.status = 200 THEN r.token ELSE held
    /\ UNCHANGED <<calls, users, nextUserId, passengers, nextPassengerId, now, tz,
                   bearerStatus>>

\* GET /api/v1/auth/me
GetMe(authorization) ==
    \E gate \in {Depends_get_current_active_user(users, authorization)} :
    /\ resp' = IF gate.ok
               THEN Handled("me", authorization, gate, 200,
                            "Informations utilisateur recuperees")
               ELSE Rejected("me", authorization, gate)
    /\ UNCHANGED <<calls, users, nextUserId, passengers, nextPassengerId, now, tz,
                   bearerStatus, held>>

\* GET /api/v1/auth/users
GetAllUsers(authorization) ==
    \E gate \in {Depends_require_admin(users, authorization)} :
    /\ resp' = IF gate.ok
               THEN [Handled("users", authorization, gate, 200,
                             "utilisateurs trouves")
                        EXCEPT !.listed = AuthService_get_all_users(users)]
               ELSE Rejected("users", authorization, gate)
    /\ UNCHANGED <<calls, users, nextUserId, passengers, nextPassengerId, now, tz,
                   bearerStatus, held>>

\* a logout that revokes the token it was called with
Logout_revoking_the_token(authorization) ==
    \E gate \in {Depends_get_current_active_user(users, authorization)} :
    /\ resp' = IF gate.ok
               THEN Handled("logout", authorization, gate, 200,
                            "Deconnexion reussie")
               ELSE Rejected("logout", authorization, gate)
    /\ held' = IF gate.ok THEN NoToken ELSE held
    /\ UNCHANGED <<calls, users, nextUserId, passengers, nextPassengerId, now, tz,
                   bearerStatus>>

\* POST /api/v1/auth/logout
Logout(authorization) ==
    \E gate \in {Depends_get_current_active_user(users, authorization)} :
    /\ resp' = IF gate.ok
               THEN Handled("logout", authorization, gate, 200,
                            "Deconnexion reussie")
               ELSE Rejected("logout", authorization, gate)
    /\ UNCHANGED <<calls, users, nextUserId, passengers, nextPassengerId, now, tz,
                   bearerStatus, held>>

----------------------------------------------------------------------------
(* POST /api/v1/auth/register step by step: FastAPI runs the handler, a     *)
(* plain def, on a thread pool; every request has its own Session, so the   *)
(* SELECT of create_user and its INSERT at commit are separate statements   *)
(* between which other requests run                                          *)

IdleCall ==
    [pc |-> "idle", email |-> "", password |-> "", role |-> "", row |-> NoUser,
     raised |-> "", status |-> 0, detail |-> ""]

\* db.commit() on a users table whose email column has no unique index
db_commit_without_unique_index(db, id, row) ==
    [ok |-> TRUE, raised |-> "", rows |-> db \cup {[row EXCEPT !.id = id]}]

\* db.add(db_user); db.commit(): the INSERT draws the next id, and the unique
\* index on users.email makes it fail with sqlalchemy.exc.IntegrityError
db_commit(db, id, row) ==
    IF \E u \in db : u.email = row.email
    THEN [ok |-> FALSE, raised |-> "IntegrityError", rows |-> db]
    ELSE [ok |-> TRUE, raised |-> "", rows |-> db \cup {[row EXCEPT !.id = id]}]

\* the except clauses of auth_routes.register
register_except(raised, message) ==
    IF raised = "ValidationError"
    THEN [status |-> 400, detail |-> message]
    ELSE [status |-> 500, detail |-> "Erreur lors de la creation du compte"]

\* create_user from its first line to the construction of db_user
RegisterLookup(c, email, password, role) ==
    \E r \in {AuthService_create_user(users, 0, email, password,
                                      UserCreate_role(role))} :
    /\ calls[c].pc = "idle"
    /\ calls' = [calls EXCEPT ![c] =
          IF r.ok
          THEN [IdleCall EXCEPT !.pc = "commit", !.email = email,
                                !.password = password, !.role = role,
                                !.row = r.user]
          ELSE [IdleCall EXCEPT !.pc = "done", !.email = email,
                                !.password = password, !.role = role,
                                !.raised = "ValidationError",
                                !.status = register_except("ValidationError", r.error).status,
                                !.detail = register_except("ValidationError", r.error).detail]]
    /\ UNCHANGED <<users, nextUserId, passengers, nextPassengerId, now, tz,
                   bearerStatus, held, resp>>

\* create_user from db.add to its return, and the response of the route
RegisterCommit(c) ==
    \E r \in {db_commit(users, nextUserId, calls[c].row)} :
    /\ calls[c].pc = "commit"
    /\ users' = r.rows
    /\ nextUserId' = nextUserId + 1
    /\ calls' = [calls EXCEPT ![c] =
          IF r.ok
          THEN [@ EXCEPT !.pc = "done", !.row = [@ EXCEPT !.id = nextUserId],
                         !.status = 200,
                         !.detail = "Utilisateur cree avec succes"]
          ELSE [@ EXCEPT !.pc = "done", !.raised = r.raised,
                         !.status = register_except(r.raised, "").status,
                         !.detail = register_except(r.raised, "").detail]]
    /\ UNCHANGED <<passengers, nextPassengerId, now, tz, bearerStatus, held, resp>>

----------------------------------------------------------------------------
(* PassengerService and the guarded routes of api/routes.py *)

PassengerIds == 1..MaxPassengers

\* db.query(Passenger).filter(Passenger.id == passenger_id).first() found a row
passenger_exists(rows, passenger_id) == \E p \in rows : p.id = passenger_id

\* a PassengerNotFound whose message does not name the id
PassengerNotFound_without_id(passenger_id) == "Passager introuvable"

\* PassengerNotFound(passenger_id).message
PassengerNotFound(passenger_id) ==
    "Passager avec ID " \o ToString(passenger_id) \o " introuvable"

\* PassengerService.get_all
PassengerService_get_all(rows) ==
    [status |-> 200, rows |-> rows,
     detail |-> ToString(Cardinality(rows)) \o " passagers recuperes"]

\* PassengerService.get_by_id: PassengerNotFound (404) or the row
PassengerService_get_by_id(rows, passenger_id) ==
    IF ~passenger_exists(rows, passenger_id)
    THEN [status |-> 404, detail |-> PassengerNotFound(passenger_id), rows |-> rows]
    ELSE [status |-> 200, detail |-> "Passager trouve", rows |-> rows]

\* PassengerService.search_advanced with the sex filter: ValidationError
\* (400) or the rows found
PassengerService_search_advanced(rows, sex) ==
    IF sex # None /\ sex \notin {"male", "female"}
    THEN [status |-> 400, detail |-> "Le sexe doit etre 'male' ou 'female'",
          rows |-> rows]
    ELSE [status |-> 200, rows |-> rows,
          detail |-> ToString(Cardinality(
                         {q \in rows : sex # None => q.sex = sex}))
                     \o " passagers trouves"]

\* PassengerService.get_statistics
PassengerService_get_statistics(rows) ==
    [status |-> 200, detail |-> "Statistiques calculees", rows |-> rows]

\* PassengerService.create: ValidationError (400) or the insert of the
\* normalised row with the key the store assigns
PassengerService_create(rows, id, passenger_data) ==
    IF passenger_data.sex \notin {"male", "female"}
    THEN [status |-> 400, detail |-> "Le sexe doit etre 'male' ou 'female'",
          rows |-> rows]
    ELSE IF passenger_data.embarked # None
            /\ upper(passenger_data.embarked) \notin {"C", "S", "Q"}
    THEN [status |-> 400, detail |-> "Le port doit etre C, S ou Q", rows |-> rows]
    ELSE [status |-> 200, detail |-> "Passager cree avec succes",
          rows |-> rows \cup
              {[id |-> id, sex |-> lower(passenger_data.sex),
                age |-> passenger_data.age,
                embarked |-> IF passenger_data.embarked # None
                             THEN upper(passenger_data.embarked) ELSE None]}]

\* an update through passenger_data.dict(), every field written
PassengerService_update_without_exclude_unset(rows, passenger_id, passenger_data) ==
    IF ~passenger_exists(rows, passenger_id)
    THEN [status |-> 404, detail |-> PassengerNotFound(passenger_id), rows |-> rows]
    ELSE [status |-> 200, detail |-> "Passager mis a jour avec succes",
          rows |-> {IF q.id = passenger_id
                    THEN [id |-> q.id, sex |-> passenger_data.sex,
                          age |-> passenger_data.age,
                          embarked |-> passenger_data.embarked]
                    ELSE q : q \in rows}]

\* PassengerService.update: PassengerNotFound (404), ValidationError (400),
\* or the fields of passenger_data.dict(exclude_unset=True) set
PassengerService_update(rows, passenger_id, passenger_data) ==
    IF ~passenger_exists(rows, passenger_id)
    THEN [status |-> 404, detail |-> PassengerNotFound(passenger_id), rows |-> rows]
    ELSE IF "sex" \in passenger_data.fields_set
            /\ passenger_data.sex \notin {"male", "female"}
    THEN [status |-> 400, detail |-> "Le sexe doit etre 'male' ou 'female'",
          rows |-> rows]
    ELSE IF "embarked" \in passenger_data.fields_set
            /\ passenger_data.embarked # None
            /\ upper(passenger_data.embarked) \notin {"C", "S", "Q"}
    THEN [status |-> 400, detail |-> "Le port doit etre C, S ou Q", rows |-> rows]
    ELSE [status |-> 200, detail |-> "Passager mis a jour avec succes",
          rows |-> {IF q.id = passenger_id
                    THEN [q EXCEPT
                            !.sex = IF "sex" \in passenger_data.fields_set
                                    THEN lower(passenger_data.sex) ELSE @,
                            !.age = IF "age" \in passenger_data.fields_set
                                    THEN passenger_data.age ELSE @,
                            !.embarked =
                                IF "embarked" \in passenger_data.fields_set
                                THEN IF passenger_data.embarked # None
                                     THEN upper(passenger_data.embarked)
                                     ELSE None
                                ELSE @]
                    ELSE q : q \in rows}]

\* PassengerService.delete: PassengerNotFound (404) or the row removed
PassengerService_delete(rows, passenger_id) ==
    IF ~passenger_exists(rows, passenger_id)
    THEN [status |-> 404, detail |-> PassengerNotFound(passenger_id), rows |-> rows]
    ELSE [status |-> 200, detail |-> "Passager supprime avec succes",
          rows |-> {q \in rows : q.id # passenger_id}]

\* POST /api/v1/passengers
CreatePassenger(authorization, passenger_data) ==
    \E gate \in {Depends_require_user_or_admin(users, authorization)},
       r \in {PassengerService_create(passengers, nextPassengerId, passenger_data)} :
    /\ gate.ok => nextPassengerId <= MaxPassengers
    /\ passengers' = IF gate.ok THEN r.rows ELSE passengers
    /\ nextPassengerId' = IF gate.ok /\ r.status = 200
                          THEN nextPassengerId + 1 ELSE nextPassengerId
    /\ resp' = IF gate.ok
               THEN Handled("create_passenger", authorization, gate, r.status, r.detail)
               ELSE Rejected("create_passenger", authorization, gate)
    /\ UNCHANGED <<calls, users, nextUserId, now, tz, bearerStatus, held>>

\* PUT /api/v1/passengers/{passenger_id}
UpdatePassenger(authorization, passenger_id, body) ==
    \E gate \in {Depends_require_admin(users, authorization)},
       r \in {PassengerService_update(passengers, passenger_id,
                                      PassengerUpdate(body))} :
    /\ passengers' = IF gate.ok /\ PassengerUpdate_valid(body)
                     THEN r.rows ELSE passengers
    /\ resp' = [(IF ~gate.ok
                 THEN Rejected("update_passenger", authorization, gate)
                 ELSE IF ~PassengerUpdate_valid(body)
                 THEN Unprocessable("update_passenger", authorization, gate)
                 ELSE Handled("update_passenger", authorization, gate,
                              r.status, r.detail))
                   EXCEPT !.passenger_id = passenger_id,
                          !.passenger_data = body]
    /\ UNCHANGED <<calls, users, nextUserId, nextPassengerId, now, tz, bearerStatus, held>>

\* DELETE /api/v1/passengers/{passenger_id}
DeletePassenger(authorization, passenger_id) ==
    \E gate \in {Depends_require_admin(users, authorization)},
       r \in {PassengerService_delete(passengers, passenger_id)} :
    /\ passengers' = IF gate.ok THEN r.rows ELSE passengers
    /\ resp' = [(IF gate.ok
                 THEN Handled("delete_passenger", authorization, gate,
                              r.status, r.detail)
                 ELSE Rejected("delete_passenger", authorization, gate))
                   EXCEPT !.passenger_id = passenger_id]
    /\ UNCHANGED <<calls, users, nextUserId, nextPassengerId, now, tz, bearerStatus, held>>

----------------------------------------------------------------------------
(* The public GET routes of api/routes.py and the router's dispatch *)

\* the GET routes in the order routes.py declares them
Routes ==
    << [path |-> <<"passengers">>, endpoint |-> "get_passengers"],
       [path |-> <<"passengers", "{passenger_id}">>, endpoint |-> "get_passenger"],
       [path |-> <<"passengers", "search", "advanced">>,
        endpoint |-> "search_passengers"],
       [path |-> <<"passengers", "statistics">>, endpoint |-> "get_statistics"] >>

\* Route.matches: the path regex of a route, a path parameter being [^/]+
matches(route, path) ==
    /\ Len(route.path) = Len(path)
    /\ \A i \in 1..Len(path) :
          route.path[i] = "{passenger_id}" \/ route.path[i] = path[i]

\* Router: the first route that matches, 0 when none does
dispatch(path) ==
    IF \E i \in 1..Len(Routes) : matches(Routes[i], path)
    THEN CHOOSE i \in 1..Len(Routes) :
             /\ matches(Routes[i], path)
             /\ \A j \in 1..(i - 1) : ~matches(Routes[j], path)
    ELSE 0

\* passenger_id: int, the conversion of the path segment
NotAnInt == -1
int(segment) ==
    IF \E n \in 0..9 : ToString(n) = segment
    THEN CHOOSE n \in 0..9 : ToString(n) = segment
    ELSE NotAnInt

\* the endpoint a GET is dispatched to and what it answers
get(path, sex, rows) ==
    LET endpoint == IF dispatch(path) = 0 THEN "none"
                    ELSE Routes[dispatch(path)].endpoint
        answer(r, id) == [endpoint |-> endpoint, status |-> r.status,
                          detail |-> r.detail, handler |-> TRUE,
                          passenger_id |-> id]
    IN  CASE endpoint = "get_passengers" ->
                 answer(PassengerService_get_all(rows), 0)
          [] endpoint = "get_passenger" ->
                 IF int(path[2]) = NotAnInt
                 THEN [endpoint |-> endpoint, status |-> 422,
                       detail |-> "Unprocessable Entity", handler |-> FALSE,
                       passenger_id |-> 0]
                 ELSE answer(PassengerService_get_by_id(rows, int(path[2])),
                             int(path[2]))
          [] endpoint = "search_passengers" ->
                 answer(PassengerService_search_advanced(rows, sex), 0)
          [] endpoint = "get_statistics" ->
                 answer(PassengerService_get_statistics(rows), 0)
          [] OTHER -> [endpoint |-> endpoint, status |-> 404,
                       detail |-> "Not Found", handler |-> FALSE,
                       passenger_id |-> 0]

\* a GET that resolves the bearer token before it is dispatched
Get_behind_get_current_user(path, sex, authorization) ==
    \E gate \in {Depends_get_current_user(users, authorization)},
       r \in {get(path, sex, passengers)} :
    /\ resp' = [(IF gate.ok
                 THEN Resp(r.endpoint, authorization, "", "", "", r.status,
                           r.detail, gate.gates, r.handler, NoUserResponse,
                           NoToken)
                 ELSE Rejected(r.endpoint, authorization, gate))
                   EXCEPT !.path = path, !.query = sex,
                          !.passenger_id = r.passenger_id]
    /\ UNCHANGED <<calls, users, nextUserId, passengers, nextPassengerId, now,
                   tz, bearerStatus, held>>

\* GET /api/v1/<path>?sex=<sex>: no dependency but get_db
Get(path, sex, authorization) ==
    \E r \in {get(path, sex, passengers)} :
    /\ resp' = [Resp(r.endpoint, authorization, "", "", "", r.status, r.detail,
                     <<>>, r.handler, NoUserResponse, NoToken)
                   EXCEPT !.path = path, !.query = sex,
                          !.passenger_id = r.passenger_id]
    /\ UNCHANGED <<calls, users, nextUserId, passengers, nextPassengerId, now,
                   tz, bearerStatus, held>>

----------------------------------------------------------------------------
(* The environment: the clock and the external administration of the      *)
(* users table                                                             *)

Tick ==
    /\ now + TickStep <= MaxTime
    /\ now' = now + TickStep
    /\ resp' = Idle
    /\ UNCHANGED <<calls, users, nextUserId, passengers, nextPassengerId, tz,
                   bearerStatus, held>>

\* users.is_active written outside the API
AdminSetActive(id, active) ==
    /\ \E u \in users : u.id = id /\ u.is_active # active
    /\ users' = {IF u.id = id THEN [u EXCEPT !.is_active = active] ELSE u :
                 u \in users}
    /\ resp' = Idle
    /\ UNCHANGED <<calls, nextUserId, passengers, nextPassengerId, now, tz,
                   bearerStatus, held>>

\* users.role written outside the API (the column is a free string)
AdminSetRole(id, role) ==
    /\ \E u \in users : u.id = id /\ u.role # role
    /\ users' = {IF u.id = id THEN [u EXCEPT !.role = role] ELSE u : u \in users}
    /\ resp' = Idle
    /\ UNCHANGED <<calls, nextUserId, passengers, nextPassengerId, now, tz,
                   bearerStatus, held>>

\* a users row deleted outside the API
AdminDeleteUser(id) ==
    /\ \E u \in users : u.id = id
    /\ users' = {u \in users : u.id # id}
    /\ resp' = Idle
    /\ UNCHANGED <<calls, nextUserId, passengers, nextPassengerId, now, tz,
                   bearerStatus, held>>

----------------------------------------------------------------------------

Init ==
    /\ users = {}
    /\ nextUserId = 1
    /\ passengers = {}
    /\ nextPassengerId = 1
    /\ now = 0
    /\ tz \in TzOffsets
    /\ bearerStatus \in BearerStatuses
    /\ held = NoToken
    /\ resp = Idle
    /\ calls = [c \in Calls |-> IdleCall]

Next ==
    \/ \E e \in Emails, p \in RegisterPasswords, r \in RequestRoles \cup {Omitted} :
          Register(e, p, r)
    \/ \E e \in Emails, p \in Passwords : Login(e, p)
    \/ \E a \in AuthHeaders : GetMe(a)
    \/ \E a \in AuthHeaders : GetAllUsers(a)
    \/ \E a \in AuthHeaders : Logout(a)
    \/ \E a \in AuthHeaders, age \in CreateAges :
          CreatePassenger(a, PassengerCreate("male", age, "S"))
    \/ \E a \in AuthHeaders, id \in PassengerIds, age \in UpdateAges :
          UpdatePassenger(a, id, AgeUpdate(age))
    \/ \E a \in AuthHeaders, id \in PassengerIds : DeletePassenger(a, id)
    \/ Tick
    \/ \E id \in 1..MaxUsers, active \in BOOLEAN : AdminSetActive(id, active)
    \/ \E id \in 1..MaxUsers, r \in RequestRoles : AdminSetRole(id, r)
    \/ \E id \in 1..MaxUsers : AdminDeleteUser(id)

Spec == Init /\ [][Next]_vars

----------------------------------------------------------------------------
(* Register requests running concurrently against an empty users table *)

InitRegister == Init /\ tz = 0 /\ bearerStatus = 403

NextRegister ==
    \/ \E c \in Calls, e \in Emails, p \in Passwords,
          r \in RequestRoles \cup {Omitted} : RegisterLookup(c, e, p, r)
    \/ \E c \in Calls : RegisterCommit(c)

SpecRegister == InitRegister /\ [][NextRegister]_vars

----------------------------------------------------------------------------
(* The token codec on its own: tokens are created for any identity at any  *)
(* time, the clock may move on between the two clock reads of              *)
(* create_access_token, the holder may re-sign a token with a key of its   *)
(* own, and the token in hand is decoded at any later time                 *)

\* JWTHandler.create_access_token; drift is the time that passes between
\* the clock read for exp and the clock read for iat
Encode(user_id, email, role, drift) ==
    /\ now + drift <= MaxTime
    /\ held' = create_access_token(user_id, email, role, now, now + drift)
    /\ now' = now + drift
    /\ UNCHANGED <<users, nextUserId, passengers, nextPassengerId, tz,
                   bearerStatus, resp, calls>>

\* the holder replaces the signature (and the role claim) of its token
Resign ==
    /\ held.kind = "jwt"
    /\ held.key = SECRET_KEY
    /\ held' = Forge(held)
    /\ UNCHANGED <<users, nextUserId, passengers, nextPassengerId, now, tz,
                   bearerStatus, resp, calls>>

\* time passes
Advance(step) ==
    /\ now + step <= MaxTime
    /\ now' = now + step
    /\ UNCHANGED <<users, nextUserId, passengers, nextPassengerId, tz,
                   bearerStatus, held, resp, calls>>

InitCodec == Init /\ bearerStatus = 403

NextCodec ==
    \/ \E id \in TokenUserIds, e \in Emails, r \in RequestRoles, d \in ClockDrifts :
          Encode(id, e, r, d)
    \/ Resign
    \/ \E step \in ClockSteps : Advance(step)

SpecCodec == InitCodec /\ [][NextCodec]_vars

----------------------------------------------------------------------------
(* decode_token on every input: whoever holds SECRET_KEY (it is written in *)
(* jwt_handler.py) signs a payload of its choice, with or without the      *)
(* user_id claim and with an exp claim of any JSON form                    *)

\* jwt.encode(payload, SECRET_KEY, algorithm=ALGORITHM) outside the service
Sign(user_id, email, role, exp_form, exp) ==
    /\ held' = [create_access_token(user_id, email, role, 0, 0)
                  EXCEPT !.exp_form = exp_form,
                         !.exp = IF exp_form = "missing" THEN 0 ELSE exp]
    /\ UNCHANGED <<users, nextUserId, passengers, nextPassengerId, now, tz,
                   bearerStatus, resp, calls>>

\* a string that is no JWT
Garble ==
    /\ held' = Malformed
    /\ UNCHANGED <<users, nextUserId, passengers, nextPassengerId, now, tz,
                   bearerStatus, resp, calls>>

InitDecode == Init /\ bearerStatus = 403

NextDecode ==
    \/ \E id \in PayloadUserIds, e \in Emails, r \in RequestRoles,
          f \in ExpForms, x \in ExpClaims : Sign(id, e, r, f, x)
    \/ Garble
    \/ Resign
    \/ \E step \in ClockSteps : Advance(step)

SpecDecode == InitDecode /\ [][NextDecode]_vars

----------------------------------------------------------------------------
(* Vocabulary of the properties *)

GatedOps == {"me", "users", "logout", "create_passenger", "update_passenger",
             "delete_passenger"}
AdminOnlyOps == {"users", "update_passenger", "delete_passenger"}
MutatingOps == {"create_passenger", "update_passenger", "delete_passenger"}

\* the token was signed by this service
Signed(token) ==
    token.kind = "jwt" /\ token.key = SECRET_KEY /\ token.alg = ALGORITHM

\* the token's validity per the data model: current time <= expires_at
Unexpired(token, t) == t <= token.exp

\* the request presented a signed, unexpired bearer token
PresentsGoodToken(r) ==
    /\ r.authorization.scheme = "Bearer"
    /\ Signed(r.authorization.credentials)
    /\ Unexpired(r.authorization.credentials, now)

KnownEmail(email) == \E u \in users : u.email = email

RightPassword(email, password) ==
    \E u \in users : u.email = email /\ u.password_hash = hash_password(password)

\* what the client sees of a response
Visible(r) == [status |-> r.status, detail |-> r.detail, user |-> r.user,
               token |-> r.token]

----------------------------------------------------------------------------
(* C1: register (role defaulted) of a new email, then login with the same  *)
(* credentials, succeeds, and resolving the returned token at any time up  *)
(* to its expiry returns the user with that email and role "user".         *)
(* Stated in the state a successful register leaves.                       *)
C1_RegisterLoginResolve ==
    (resp.op = "register" /\ resp.status = 200 /\ resp.role = Omitted) =>
        LET l == AuthService_login(users, resp.email, resp.password, now, now) IN
        /\ l.ok
        /\ \A t \in now..l.token.exp :
              LET r == AuthService_get_current_user(users, l.token, t, tz) IN
              r.ok /\ r.user.email = resp.email /\ r.user.role = "user"

(* C2: a login with a wrong password for a stored email and a login for an *)
(* email that is not stored get the same visible response: status 401 and  *)
(* the one message, no user, no token.                                     *)
C2_LoginFailuresIndistinguishable ==
    /\ \A e1 \in Emails, e2 \in Emails, p1 \in Passwords, p2 \in Passwords :
          (KnownEmail(e1) /\ ~RightPassword(e1, p1) /\ ~KnownEmail(e2)) =>
              Visible(login(users, e1, p1, now, now))
                  = Visible(login(users, e2, p2, now, now))
    /\ (resp.op = "login"
          /\ (~KnownEmail(resp.email) \/ ~RightPassword(resp.email, resp.password)))
       => Visible(resp) = [status |-> 401,
                           detail |-> "Email ou mot de passe incorrect",
                           user |-> NoUserResponse, token |-> NoToken]

C2_Witness ==
    /\ resp.op = "login"
    /\ KnownEmail(resp.email)
    /\ ~RightPassword(resp.email, resp.password)
    /\ resp.status = 401
    /\ \E e \in Emails : ~KnownEmail(e)

(* C3: on an admin-only operation, a signed unexpired token of an active   *)
(* user whose role claim differs from the stored role is judged by the     *)
(* stored role: stored "admin" runs the handler whatever the claim says,   *)
(* any other stored role is answered 403 whatever the claim says.          *)
C3_StoredRoleDecides ==
    (resp.op \in AdminOnlyOps /\ PresentsGoodToken(resp)) =>
        \A u \in users :
            (/\ u.id = resp.authorization.credentials.user_id
             /\ u.is_active
             /\ u.role # resp.authorization.credentials.role)
            => IF u.role = "admin"
               THEN resp.handler
               ELSE resp.status = 403 /\ ~resp.handler

(* C3, the part that holds: once a token resolves, the user handed to the  *)
(* role gates is the stored row, and a re-signed copy of the token with    *)
(* another role claim resolves to the very same result.                    *)
C3_RoleClaimIgnored ==
    /\ \A r \in RequestRoles :
          AuthService_get_current_user(users, [held EXCEPT !.role = r], now, tz)
              = AuthService_get_current_user(users, held, now, tz)
    /\ (resp.op \in AdminOnlyOps /\ Len(resp.gates) = 4) =>
          \E u \in users :
              /\ u.id = resp.authorization.credentials.user_id
              /\ (resp.status = 403) = (u.role # "admin")
              /\ resp.handler = (u.role = "admin")

(* C4: a signed, unexpired token whose user has been deactivated since it  *)
(* was issued fails resolve with the disabled-account error.               *)
C4_DeactivatedTokenFails ==
    (Signed(held) /\ Unexpired(held, now)
       /\ \E u \in users : u.id = held.user_id /\ ~u.is_active)
    => LET r == AuthService_get_current_user(users, held, now, tz) IN
       ~r.ok /\ r.error = "Compte desactive"

(* C5: a protected endpoint called with a signed, unexpired token of a     *)
(* user whose is_active is false answers 400, the status of the            *)
(* get_current_active_user gate. Stated for tokens the codec accepts, so   *)
(* that the response is the one of the disabled-account path.              *)
C5_InactiveUserGets400 ==
    (/\ resp.op \in GatedOps
     /\ PresentsGoodToken(resp)
     /\ decode_token(resp.authorization.credentials, now, tz).valid
     /\ \E u \in users :
           u.id = resp.authorization.credentials.user_id /\ ~u.is_active)
    => resp.status = 400

(* C6: login with a stored email and its right password, for a user whose  *)
(* is_active is false, fails with the account-disabled error and the       *)
(* endpoint answers 400.                                                   *)
C6_DisabledLoginGets400 ==
    (/\ resp.op = "login"
     /\ RightPassword(resp.email, resp.password)
     /\ \E u \in users : u.email = resp.email /\ ~u.is_active)
    => resp.status = 400 /\ resp.detail = "Compte desactive"

(* C7: on PUT /passengers/{id}, DELETE /passengers/{id} and GET            *)
(* /auth/users, a signed unexpired token of an active user with stored     *)
(* role "user" is answered 403 without running the handler, and one of an  *)
(* active user with stored role "admin" passes every gate and the handler  *)
(* runs.                                                                   *)
C7_AdminOnlyOperations ==
    (resp.op \in AdminOnlyOps /\ PresentsGoodToken(resp)) =>
        \A u \in users :
            (u.id = resp.authorization.credentials.user_id /\ u.is_active) =>
                /\ u.role = "user" => (resp.status = 403 /\ ~resp.handler)
                /\ u.role = "admin" => (resp.handler /\ Len(resp.gates) = 4)

(* C8: a protected endpoint called without an Authorization header, or     *)
(* with a scheme other than Bearer, answers 401 like an invalid token      *)
(* does, and the handler does not run.                                     *)
C8_MissingCredentialsGet401 ==
    (resp.op \in GatedOps /\ resp.authorization.scheme # "Bearer")
    => resp.status = 401 /\ ~resp.handler

\* the role predicate of each passenger-mutating endpoint
RolePredicate(op, role) ==
    IF op = "create_passenger" THEN role \in {"user", "admin"} ELSE role = "admin"

\* request r carries a signed, unexpired token of an existing active user
\* of database db who satisfies the role predicate of r's endpoint
AuthorizedBy(r, db, t) ==
    /\ r.authorization.scheme = "Bearer"
    /\ Signed(r.authorization.credentials)
    /\ Unexpired(r.authorization.credentials, t)
    /\ \E u \in db :
          /\ u.id = r.authorization.credentials.user_id
          /\ u.is_active
          /\ RolePredicate(r.op, u.role)
          /\ r.user = UserResponse(u)

(* C9: every step that changes the passenger store, and every step in      *)
(* which a passenger-mutating handler runs, is a create / update / delete  *)
(* request whose token resolved in that request to an existing active user *)
(* satisfying the endpoint's role predicate.                               *)
C9_MutationsNeedAuthorizedUser ==
    [][ /\ (passengers' # passengers \/ nextPassengerId' # nextPassengerId)
            => (resp'.op \in MutatingOps /\ resp'.handler)
        /\ (resp'.op \in MutatingOps /\ resp'.handler)
            => AuthorizedBy(resp', users, now) ]_vars

C9_Witness ==
    /\ resp.op = "update_passenger"
    /\ resp.handler
    /\ resp.status = 200
    /\ \E p \in passengers : p.age \in UpdateAges

\* the gates of an endpoint, in the order its dependencies nest
Chain(op) ==
    <<"security", "get_current_user", "get_current_active_user">>
        \o (IF op \in AdminOnlyOps THEN <<"require_admin">>
            ELSE IF op = "create_passenger" THEN <<"require_user_or_admin">>
            ELSE <<>>)

IsPrefix(s, t) == Len(s) <= Len(t) /\ \A i \in 1..Len(s) : s[i] = t[i]

\* the status with which a gate rejects
GateStatus(gate) ==
    IF gate = "security" THEN bearerStatus
    ELSE IF gate = "get_current_user" THEN 401
    ELSE IF gate = "get_current_active_user" THEN 400
    ELSE 403

(* C10: the gates of a request run in the order security, get_current_user, *)
(* get_current_active_user, role gate; the handler runs only after all of   *)
(* them ran; a request stopped by a gate ran no gate after it, ran no       *)
(* handler, and ends with that gate's status; and a gate that has to reject *)
(* (no bearer credentials, a token that does not resolve) is the last one.  *)
C10_GatesInOrderShortCircuit ==
    resp.op \in GatedOps =>
        /\ Len(resp.gates) >= 1
        /\ IsPrefix(resp.gates, Chain(resp.op))
        /\ resp.handler => resp.gates = Chain(resp.op)
        /\ ~resp.handler => resp.status = GateStatus(resp.gates[Len(resp.gates)])
        /\ resp.authorization.scheme # "Bearer" => resp.gates = <<"security">>
        /\ (/\ resp.authorization.scheme = "Bearer"
            /\ ~AuthService_get_current_user(
                    users, resp.authorization.credentials, now, tz).ok)
           => (resp.gates = <<"security", "get_current_user">> /\ ~resp.handler)

C10_Witness ==
    /\ resp.op \in AdminOnlyOps
    /\ resp.gates = Chain(resp.op)
    /\ resp.status = 403
    /\ ~resp.handler
    /\ bearerStatus = 401

----------------------------------------------------------------------------
(* Properties of concurrent register requests (SpecRegister) *)

\* the finished register requests for email that asked for a valid role
FinishedRegisters(email) ==
    {c \in Calls : /\ calls[c].pc = "done"
                    /\ calls[c].email = email
                    /\ UserCreate_role(calls[c].role) \in {"user", "admin"}}

(* C11: of the register requests for one email with valid roles that run   *)
(* against an empty store with their lookup and commit steps interleaved   *)
(* in any order, exactly one succeeds and every other one fails with the   *)
(* duplicate-email ValidationError, answered 400.                          *)
C11_ConcurrentRegisterOneWinner ==
    \A e \in Emails :
        FinishedRegisters(e) # {} =>
            \E w \in FinishedRegisters(e) :
                /\ calls[w].status = 200
                /\ \A c \in FinishedRegisters(e) \ {w} :
                      /\ calls[c].raised = "ValidationError"
                      /\ calls[c].status = 400
                      /\ calls[c].detail = "Un utilisateur avec cet email existe deja"

(* C12: the users table never holds two rows with the same email, under    *)
(* any interleaving of the steps of register requests.                     *)
C12_UniqueEmails ==
    \A u1 \in users, u2 \in users : u1.email = u2.email => u1 = u2

\* two requests for one email both passed the lookup; the second commit
\* was refused by the store
C12_Witness ==
    \E c \in Calls :
        /\ calls[c].pc = "done"
        /\ calls[c].raised = "IntegrityError"
        /\ Cardinality({u \in users : u.email = calls[c].email}) = 1

----------------------------------------------------------------------------
(* Properties of the token codec (SpecCodec) *)

(* C13: a token made by create_access_token for (user_id, email, role)     *)
(* decodes to exactly these three fields at every time from its issuance   *)
(* to issuance + 30 minutes, and to None at every later time, whatever the *)
(* offset of the host's local time from UTC.                               *)
C13_RoundTrip ==
    Signed(held) =>
        LET payload == decode_token(held, now, tz) IN
        /\ now <= held.exp =>
              /\ payload.valid
              /\ payload.user_id = held.user_id
              /\ payload.email = held.email
              /\ payload.role = held.role
        /\ now > held.exp => payload = NoPayload

\* a users table holding the live user a token names
StoreOf(token) ==
    {User(token.user_id, token.email, hash_password("pw1234"), token.role)}

(* C14: decode_token returns None for every token whose exp is earlier     *)
(* than the current time, whether its signature verifies or not, and       *)
(* AuthService.get_current_user returns no user for it even when the user  *)
(* it names is stored and active.                                          *)
C14_ExpiredNeverDecodes ==
    (held.kind = "jwt" /\ held.exp < now) =>
        /\ decode_token(held, now, tz) = NoPayload
        /\ AuthService_get_current_user(StoreOf(held), held, now, tz)
              = Failure("Token invalide ou expire")

\* an expired, correctly signed token on a host east of UTC, where the
\* comparison of decode_token itself would still let it through
C14_Witness ==
    /\ Signed(held)
    /\ held.exp < now
    /\ now <= fromtimestamp(held.exp, tz)

(* C15: every token made by create_access_token has exp = iat + 30         *)
(* minutes exactly, also when the clock moves on between the two clock     *)
(* reads of create_access_token.                                           *)
C15_ExpIsIatPlusTtl ==
    held.kind = "jwt" => held.exp = held.iat + ACCESS_TOKEN_EXPIRE_MINUTES

----------------------------------------------------------------------------
(* Properties of register requests, continued (SpecRegister) *)

\* request worker c receives a register request in this step
Received(c) == calls[c].pc = "idle" /\ calls'[c].pc # "idle"

(* C17: a register request for an email that is stored when the request    *)
(* arrives is answered 400 with the duplicate-email ValidationError and    *)
(* changes nothing in the users table: no row is added, and login with     *)
(* any password gives afterwards what it gave before, so the original      *)
(* credentials still log in.                                               *)
C17_DuplicateRegisterRejected ==
    [][ \A c \in Calls :
          (Received(c) /\ KnownEmail(calls'[c].email)) =>
              /\ calls'[c].pc = "done"
              /\ calls'[c].raised = "ValidationError"
              /\ calls'[c].status = 400
              /\ calls'[c].detail = "Un utilisateur avec cet email existe deja"
              /\ users' = users
              /\ nextUserId' = nextUserId
              /\ \A p \in Passwords :
                    AuthService_login(users', calls'[c].email, p, now, now)
                        = AuthService_login(users, calls'[c].email, p, now, now) ]_vars

\* a register with another password was refused, and the password the email
\* was first registered with still logs in
C17_Witness ==
    \E c \in Calls, p \in Passwords :
        /\ calls[c].pc = "done"
        /\ calls[c].status = 400
        /\ calls[c].detail = "Un utilisateur avec cet email existe deja"
        /\ p # calls[c].password
        /\ AuthService_login(users, calls[c].email, p, now, now).ok

(* C18: a register request whose role is neither "user" nor "admin" is     *)
(* answered 400 with a ValidationError and inserts no user, whatever the   *)
(* email; when the email is stored too, the error reported is the          *)
(* duplicate-email one, because the email is looked up first.              *)
C18_InvalidRoleRejected ==
    [][ \A c \in Calls :
          (Received(c) /\ UserCreate_role(calls'[c].role) \notin {"user", "admin"}) =>
              /\ calls'[c].pc = "done"
              /\ calls'[c].raised = "ValidationError"
              /\ calls'[c].status = 400
              /\ users' = users
              /\ calls'[c].detail =
                    IF KnownEmail(calls'[c].email)
                    THEN "Un utilisateur avec cet email existe deja"
                    ELSE "Le role doit etre 'user' ou 'admin'" ]_vars

\* both checks fail and the duplicate-email error is the one reported
C18_Witness ==
    \E c \in Calls :
        /\ calls[c].pc = "done"
        /\ calls[c].role = "guest"
        /\ KnownEmail(calls[c].email)
        /\ calls[c].status = 400
        /\ calls[c].detail = "Un utilisateur avec cet email existe deja"

(* C20: every failure that leaves AuthService.create_user is a             *)
(* ValidationError, a NotFoundError or a DatabaseError; a uniqueness       *)
(* violation raised at commit is translated into one of them.              *)
C20_OnlyDeclaredErrorKinds ==
    \A c \in Calls :
        calls[c].pc = "done" =>
            calls[c].raised \in {"", "ValidationError", "NotFoundError", "DatabaseError"}

----------------------------------------------------------------------------
(* Properties of token resolution behind the gates (Spec) *)

\* the token is no JWT at all, is signed with another key, or has expired
Undecodable(token, t) ==
    token.kind # "jwt" \/ ~Signed(token) \/ token.exp < t

(* C16: a malformed token, a token with a wrong signature and an expired   *)
(* token get the same outcome from AuthService.get_current_user, the       *)
(* ValidationError "Token invalide ou expire", and the same response from  *)
(* the authenticate gate: status 401 with that message, no user, no        *)
(* handler run.                                                            *)
C16_TokenFailuresIndistinguishable ==
    /\ \A a \in AuthHeaders :
          (a.scheme = "Bearer" /\ Undecodable(a.credentials, now)) =>
              /\ AuthService_get_current_user(users, a.credentials, now, tz)
                    = Failure("Token invalide ou expire")
              /\ Depends_get_current_user(users, a)
                    = Reject(<<"security", "get_current_user">>, 401,
                             "Token invalide ou expire")
    /\ (/\ resp.op \in GatedOps
        /\ resp.authorization.scheme = "Bearer"
        /\ Undecodable(resp.authorization.credentials, now))
       => /\ Visible(resp) = [status |-> 401,
                              detail |-> "Token invalide ou expire",
                              user |-> NoUserResponse, token |-> NoToken]
          /\ ~resp.handler

\* an expired token of a stored, active user was answered, while a malformed
\* and a re-signed token are at hand
C16_Witness ==
    /\ resp.op \in GatedOps
    /\ resp.authorization = Bearer(held)
    /\ Signed(held)
    /\ held.exp < now
    /\ \E u \in users : u.id = held.user_id /\ u.is_active
    /\ resp.status = 401
    /\ {Bearer(Malformed), Bearer(Forge(held))} \subseteq AuthHeaders

(* C19: once the user a token names has been deleted, every resolve of the *)
(* still unexpired token fails with the ValidationError "Utilisateur non   *)
(* trouve", and a request that presents it is answered 401 before any      *)
(* handler runs.                                                           *)
C19_DeletedUserTokenFails ==
    /\ (Signed(held) /\ Unexpired(held, now)
          /\ ~\E u \in users : u.id = held.user_id)
       => AuthService_get_current_user(users, held, now, tz)
              = Failure("Utilisateur non trouve")
    /\ (/\ resp.op \in GatedOps
        /\ PresentsGoodToken(resp)
        /\ ~\E u \in users : u.id = resp.authorization.credentials.user_id)
       => /\ resp.status = 401
          /\ resp.detail = "Utilisateur non trouve"
          /\ ~resp.handler

----------------------------------------------------------------------------
(* Properties of decode_token on arbitrary input (SpecDecode) *)

(* C21: decode_token never raises: for a malformed string, a wrong         *)
(* signature, an expired token, and a correctly signed payload whose exp   *)
(* or user_id claim is missing or of an unexpected type, it returns a      *)
(* claims dict or None.                                                    *)
C21_DecodeNeverRaises ==
    decode_token(held, now, tz).raised = ""

(* C28: login checks the email, then the password, then the active flag:   *)
(* for an inactive user a wrong password gets the invalid-credentials      *)
(* error, the disabled-account error is only ever answered to a caller     *)
(* who gave the right password of an inactive user, and a failing login    *)
(* carries no token.                                                       *)
C28_LoginCheckOrder ==
    resp.op = "login" =>
        /\ (KnownEmail(resp.email) /\ ~RightPassword(resp.email, resp.password))
              => resp.detail = "Email ou mot de passe incorrect"
        /\ resp.detail = "Compte desactive"
              => /\ RightPassword(resp.email, resp.password)
                 /\ \E u \in users : u.email = resp.email /\ ~u.is_active
        /\ resp.status # 200 => resp.token = NoToken

\* a deactivated user logs in with a wrong password
C28_Witness ==
    /\ resp.op = "login"
    /\ \E u \in users : u.email = resp.email /\ ~u.is_active
    /\ ~RightPassword(resp.email, resp.password)
    /\ resp.status = 401

----------------------------------------------------------------------------
(* The passenger routes on the table init_data.py fills: an admin exists,  *)
(* logs in and may be deactivated; passengers are read by anyone, and      *)
(* updated and deleted through the guarded routes with bodies of every     *)
(* shape                                                                   *)

\* the rows init_data.py inserts, with the keys the table assigns
Seed(id) ==
    IF id % 2 = 1
    THEN [id |-> id, sex |-> "male", age |-> 22, embarked |-> "S"]
    ELSE [id |-> id, sex |-> "female", age |-> 38, embarked |-> "C"]

SeedRows == {Seed(id) : id \in 1..MaxSeeded}

\* the seeded ids and one the table never held
RequestIds == 1..(MaxSeeded + 1)

SexInputs == {"Female", "other", None}
AgeInputs == {35}
EmbarkedInputs == {"q", "x"}
SearchSex == {None, "male", "other"}

\* JSON bodies of PUT: any subset of the fields, the others left out
UpdateBodies ==
    {b \in [sex : SexInputs, age : AgeInputs \cup {NoAge},
            embarked : EmbarkedInputs \cup {None},
            fields_set : SUBSET Fields] :
        /\ "sex" \notin b.fields_set => b.sex = None
        /\ "age" \in b.fields_set <=> b.age # NoAge
        /\ "embarked" \in b.fields_set <=> b.embarked # None}

SearchPath == <<"passengers", "search", "advanced">>
StatisticsPath == <<"passengers", "statistics">>

GetPaths ==
    {<<"passengers">>, SearchPath, StatisticsPath}
        \cup {<<"passengers", ToString(id)>> : id \in RequestIds}

InitPassengers ==
    /\ users = {User(1, "a@x.com", hash_password("pw1234"), "admin")}
    /\ nextUserId = 2
    /\ passengers = SeedRows
    /\ nextPassengerId = MaxSeeded + 1
    /\ now = 0
    /\ tz = 0
    /\ bearerStatus = 403
    /\ held = NoToken
    /\ resp = Idle
    /\ calls = [c \in Calls |-> IdleCall]

NextPassengers ==
    \/ Login("a@x.com", "pw1234")
    \/ \E active \in BOOLEAN : AdminSetActive(1, active)
    \/ \E id \in RequestIds, b \in UpdateBodies :
          UpdatePassenger(Bearer(held), id, b)
    \/ \E id \in RequestIds : DeletePassenger(Bearer(held), id)
    \/ \E path \in GetPaths, a \in AuthHeaders :
          \E sex \in (IF path = SearchPath THEN SearchSex ELSE {None}) :
             Get(path, sex, a)

SpecPassengers == InitPassengers /\ [][NextPassengers]_vars

----------------------------------------------------------------------------
(* Properties of the auth routes' responses and of their effect on the     *)
(* users table (Spec)                                                      *)

AuthOps == {"register", "login", "me", "users", "logout"}

\* the user records a response carries
VisibleUsers(r) == {r.user} \cup r.listed

(* C22: no response of register, login, /auth/me, /auth/users or logout    *)
(* carries a password_hash or a plaintext password: every user record in   *)
(* it consists of id, email, role and is_active only, and neither the      *)
(* token nor the message holds a password.                                 *)
C22_NoPasswordInResponses ==
    resp.op \in AuthOps =>
        /\ \A u \in VisibleUsers(resp) :
              DOMAIN u = {"id", "email", "role", "is_active"}
        /\ DOMAIN resp.token \cap {"password", "password_hash"} = {}
        /\ resp.detail \notin Passwords

\* an admin lists the users while the table holds a password hash
C22_Witness ==
    /\ resp.op = "users"
    /\ resp.status = 200
    /\ resp.listed # {}
    /\ \E u \in users : u.password_hash = hash_password("pw1234")

\* the user a request's token names is absent from the table or inactive
TokenUserGone(r) ==
    ~\E u \in users : u.id = r.authorization.credentials.user_id /\ u.is_active

(* C23: no authorization state persists across requests. A request whose    *)
(* token names a user that is by now deactivated or deleted is rejected     *)
(* before its handler, whatever earlier requests answered; a logout step    *)
(* changes nothing but the response, and after a successful logout its      *)
(* token still resolves at every time up to its expiry.                     *)
C23_NoAuthorizationState ==
    [][/\ (resp'.op \in GatedOps /\ resp'.authorization.scheme = "Bearer"
            /\ TokenUserGone(resp)')
          => (resp'.status \in {400, 401} /\ ~resp'.handler)
       /\ resp'.op = "logout"
          => /\ UNCHANGED <<users, nextUserId, passengers, nextPassengerId,
                            now, tz, bearerStatus, held, calls>>
             /\ resp'.status = 200
                => \A t \in now .. resp'.authorization.credentials.exp :
                     AuthService_get_current_user(users',
                         resp'.authorization.credentials, t, tz').ok
      ]_vars

\* the token a login issued is presented, unexpired, after its user was
\* deactivated or deleted, and the request is rejected
C23_Witness ==
    /\ resp.op \in GatedOps
    /\ resp.authorization = Bearer(held)
    /\ PresentsGoodToken(resp)
    /\ decode_token(held, now, tz).valid
    /\ TokenUserGone(resp)
    /\ resp.status = 401

----------------------------------------------------------------------------
(* Users whose roles only register sets: concurrent registers, logins,     *)
(* deactivation, and the one route guarded by require_user_or_admin        *)

NextRoles ==
    \/ NextRegister
    \/ \E e \in Emails : Login(e, "pw1234")
    \/ \E id \in 1..MaxCalls : AdminSetActive(id, FALSE)
    \/ \E a \in AuthHeaders, age \in CreateAges :
          CreatePassenger(a, PassengerCreate("male", age, "S"))

SpecRoles == InitRegister /\ [][NextRoles]_vars

\* the register call that commits in this step
Committing(c) == calls[c].pc = "commit" /\ calls'[c].pc = "done"

(* C29: a register that succeeds adds one record with role user or admin,  *)
(* is_active true and an id no other user has; so every stored role is     *)
(* user or admin, ids are unique, and a request that reaches the           *)
(* require_user_or_admin gate passes it: the handler runs.                 *)
C29_RegisteredRolesPassGate ==
    [][/\ \A c \in Calls :
            (Committing(c) /\ calls'[c].status = 200)
               => /\ calls'[c].row \notin users
                  /\ users' = users \cup {calls'[c].row}
                  /\ calls'[c].row.role \in {"user", "admin"}
                  /\ calls'[c].row.is_active
                  /\ \A u \in users : u.id # calls'[c].row.id
       /\ \A u \in users' : u.role \in {"user", "admin"}
       /\ \A u, v \in users' : u.id = v.id => u = v
       /\ (\E i \in 1..Len(resp'.gates) : resp'.gates[i] = "require_user_or_admin")
             => (resp'.handler /\ resp'.status # 403)
      ]_vars

\* two users are registered and the one with role user created a passenger
C29_Witness ==
    /\ Cardinality(users) = 2
    /\ resp.op = "create_passenger"
    /\ resp.handler
    /\ resp.user.role = "user"

----------------------------------------------------------------------------
(* The auth routes alone, on a host at UTC: the users table is written by  *)
(* nothing but register, and rows are deactivated and reactivated from     *)
(* outside                                                                 *)

NextAuth ==
    \/ \E e \in Emails, p \in RegisterPasswords, r \in RequestRoles \cup {Omitted} :
          Register(e, p, r)
    \/ \E e \in Emails, p \in Passwords : Login(e, p)
    \/ \E a \in AuthHeaders : GetMe(a)
    \/ \E a \in AuthHeaders : GetAllUsers(a)
    \/ \E a \in AuthHeaders : Logout(a)
    \/ \E id \in 1..MaxUsers, active \in BOOLEAN : AdminSetActive(id, active)

SpecAuth == InitRegister /\ [][NextAuth]_vars

(* C30: login, the resolve of a token, get_all_users, /auth/me and logout  *)
(* leave the users table as it was, whether they succeed or fail; a        *)
(* register step either leaves it as it was or adds exactly one record,    *)
(* and changes or removes none.                                            *)
C30_OnlyRegisterWritesUsers ==
    [][/\ resp'.op \in {"login", "me", "users", "logout"}
          => (users' = users /\ nextUserId' = nextUserId)
       /\ resp'.op = "register"
          => /\ users \subseteq users'
             /\ Cardinality(users' \ users) <= 1
             /\ resp'.status = 200 <=> users' # users
      ]_vars

\* a second register of a stored email was refused
C30_Witness ==
    /\ resp.op = "register"
    /\ resp.status = 400
    /\ \E u \in users : u.email = resp.email

----------------------------------------------------------------------------
(* Properties of the passenger routes (SpecPassengers) *)

PublicOps == {"get_passengers", "get_passenger", "search_passengers",
              "get_statistics"}

\* the paths the three documented read endpoints are asked for, with
\* parameters their services accept
ReadsWell(r) ==
    \/ r.path = <<"passengers">>
    \/ r.path = SearchPath /\ r.query \in {None, "male", "female"}
    \/ \E q \in passengers : r.path = <<"passengers", ToString(q.id)>>

(* C24: the public read endpoints run no auth gate and change no store: a  *)
(* GET of /passengers, /passengers/{id} or /passengers/search/advanced     *)
(* answers what its service answers whatever the Authorization header is   *)
(* (none, an invalid token, the token of a deactivated user), 200 when the *)
(* id exists and the filter is valid, and leaves users and passengers as   *)
(* they were.                                                              *)
C24_PublicReadsUngated ==
    [][resp'.op \in PublicOps
         => /\ resp'.gates = <<>>
            /\ resp'.status \notin {401, 403}
            /\ resp'.status = get(resp'.path, resp'.query, passengers).status
            /\ resp'.detail = get(resp'.path, resp'.query, passengers).detail
            /\ ReadsWell(resp') => resp'.status = 200
            /\ UNCHANGED <<users, nextUserId, passengers, nextPassengerId, held>>
      ]_vars

\* a passenger is read with the token of the deactivated admin
C24_Witness ==
    /\ resp.op = "get_passenger"
    /\ resp.status = 200
    /\ resp.authorization = Bearer(held)
    /\ Signed(held)
    /\ TokenUserGone(resp)

(* C25: GET /api/v1/passengers/statistics is dispatched to get_statistics  *)
(* and answers 200; the earlier /passengers/{passenger_id} route does not   *)
(* capture it.                                                             *)
C25_StatisticsDispatched ==
    resp.path = StatisticsPath
        => (resp.op = "get_statistics" /\ resp.status = 200)

\* the passenger service ran for an id
OnPassenger(r) ==
    r.handler /\ r.op \in {"get_passenger", "update_passenger", "delete_passenger"}

(* C26: get_by_id, update and delete on an id that is not in the table     *)
(* answer 404 with the message of PassengerNotFound, which names the id,   *)
(* and leave the table as it was; after a successful delete, get_by_id of   *)
(* the id answers 404 and every other row is unchanged.                    *)
C26_MissingPassenger404 ==
    [][/\ (OnPassenger(resp') /\ ~passenger_exists(passengers, resp'.passenger_id))
          => /\ resp'.status = 404
             /\ resp'.detail = "Passager avec ID "
                                  \o ToString(resp'.passenger_id)
                                  \o " introuvable"
             /\ passengers' = passengers
       /\ (resp'.op = "delete_passenger" /\ resp'.status = 200)
          => /\ PassengerService_get_by_id(passengers',
                                            resp'.passenger_id).status = 404
             /\ passengers' = {q \in passengers : q.id # resp'.passenger_id}
             /\ passengers' # passengers
      ]_vars

\* a row was deleted, another is still there, and the deleted id is asked for
C26_Witness ==
    /\ resp.op = "get_passenger"
    /\ resp.status = 404
    /\ resp.passenger_id \in 1..MaxSeeded
    /\ passengers # {}

(* C27: a successful update sets exactly the fields its PassengerUpdate    *)
(* names to the values it holds and leaves the other fields, the id and    *)
(* every other row as they were; an update refused by validation (422 of   *)
(* the schema, 400 of the service) changes nothing.                        *)
C27_UpdateSetsNamedFields ==
    [][resp'.op = "update_passenger"
         => LET id == resp'.passenger_id
                passenger_data == PassengerUpdate(resp'.passenger_data)
            IN  /\ resp'.status = 200
                   => /\ {q.id : q \in passengers'} = {q.id : q \in passengers}
                      /\ \A q \in passengers :
                            IF q.id # id THEN q \in passengers'
                            ELSE \E n \in passengers' :
                                   /\ n.id = id
                                   /\ \A f \in Fields :
                                         n[f] = IF f \in passenger_data.fields_set
                                                THEN passenger_data[f]
                                                ELSE q[f]
                /\ resp'.status \in {400, 422} => passengers' = passengers
      ]_vars

\* an update of sex alone went through: age and embarked are the seeded ones
C27_Witness ==
    /\ resp.op = "update_passenger"
    /\ resp.status = 200
    /\ resp.passenger_data.fields_set = {"sex"}
    /\ resp.passenger_data.sex = "Female"
    /\ \E q \in passengers : q.id = resp.passenger_id /\ q.sex = "female"
                                 /\ q.age = Seed(q.id).age

====
